---- MODULE Spec2Model ----
(***************************************************************************)
(* Model of the two PR-agent tool servers of the repository:               *)
(*   "actions": projects/unit3/github-actions-integration/starter/server.py*)
(*   "build"  : projects/unit3/build-mcp-server/starter/server.py          *)
(* Each tool is one action.  A tool reads the template directory, the      *)
(* webhook event file or the output of git, and returns a JSON document    *)
(* (or lets an exception escape).  Text is a sequence of characters, a     *)
(* JSON object is a record, a JSON array is a sequence.                    *)
(***************************************************************************)
EXTENDS Integers, Sequences, FiniteSets, TLC

VARIABLES templateStore, eventsFile, call, ret, prevTemplates

vars == <<templateStore, eventsFile, call, ret, prevTemplates>>

(***************************************************************************)
(* Bounds of the model.                                                    *)
(***************************************************************************)
\* longest git diff output, in characters
MaxDiffLen == 5
\* largest max_diff_lines argument
MaxLines == 3
\* longest event log, in events
MaxLog == 3
\* largest limit argument of get_recent_actions_events
MaxLimit == 3
\* most template files that differ from the shipped template directory
MaxBroken == 2
\* the same two bounds for the specification that runs all five tools together
MaxLogAll == 1
MaxBrokenAll == 1

Variants == {"actions", "build"}

(***************************************************************************)
(* Text: Python str as a sequence of characters.                           *)
(***************************************************************************)
NL == "\n"
TAB == "\t"

Min(a, b) == IF a < b THEN a ELSE b

Whitespace == {NL, TAB, " "}

\* All texts over alphabet `chars` of length at most n.
Texts(chars, n) == UNION {[1..k -> chars] : k \in 0..n}

\* seq[:n] for n >= 0
Take(seq, n) == SubSeq(seq, 1, Min(n, Len(seq)))

\* Position of the first occurrence of character c in s, 0 when absent.
RECURSIVE FindFrom(_, _, _)
FindFrom(s, c, i) ==
    IF i > Len(s) THEN 0
    ELSE IF s[i] = c THEN i
    ELSE FindFrom(s, c, i + 1)

\* str.split(sep): the pieces between separators; always at least one piece.
RECURSIVE Split(_, _)
Split(s, sep) ==
    LET i == FindFrom(s, sep, 1)
    IN  IF i = 0 THEN <<s>>
        ELSE <<SubSeq(s, 1, i - 1)>> \o Split(SubSeq(s, i + 1, Len(s)), sep)

\* str.splitlines(): as split on the line break, without the empty piece that
\* follows a final line break; the empty text has no line.
SplitLines(s) ==
    LET p == Split(s, NL)
    IN  IF p[Len(p)] = <<>> THEN SubSeq(p, 1, Len(p) - 1) ELSE p

\* sep.join(pieces)
RECURSIVE Join(_, _)
Join(pieces, sep) ==
    IF pieces = <<>> THEN <<>>
    ELSE IF Len(pieces) = 1 THEN pieces[1]
    ELSE pieces[1] \o <<sep>> \o Join(Tail(pieces), sep)

\* str.strip(): leading and trailing whitespace removed.
RECURSIVE LStrip(_)
LStrip(s) ==
    IF s # <<>> /\ s[1] \in Whitespace THEN LStrip(Tail(s)) ELSE s

RECURSIVE RStrip(_)
RStrip(s) ==
    IF s # <<>> /\ s[Len(s)] \in Whitespace
    THEN RStrip(SubSeq(s, 1, Len(s) - 1))
    ELSE s

Strip(s) == LStrip(RStrip(s))

\* line.split("\t", 1)[-1]: the text after the first tab, the line when it has none.
AfterFirstTab(line) ==
    LET i == FindFrom(line, TAB, 1)
    IN  IF i = 0 THEN line ELSE SubSeq(line, i + 1, Len(line))

(***************************************************************************)
(* git: a command run is its exit status and its standard output.  A       *)
(* failing command exits 128 with nothing on standard output.              *)
(***************************************************************************)
Refs == {"main", "dev"}

\* the characters of a diff: a content character and the line break
DiffChars == {"a", NL}

DiffOutputs == Texts(DiffChars, MaxDiffLen)

\* the diffs used when all five tools run together
FewDiffOutputs == {<<>>, <<"a", NL>>, <<"a", NL, "a", NL>>}

\* outputs of git diff --name-status: nothing changed, one file, two files, a rename
NameStatusOutputs ==
    { <<>>,
      <<"M", TAB, "f", NL>>,
      <<"M", TAB, "f", NL, "A", TAB, "g", NL>>,
      <<"R", TAB, "f", TAB, "g", NL>> }

StatOutput == <<"stat">>
LogOutput == <<"log">>

Failed == [rc |-> 128, stdout |-> <<>>]
NotRun == [rc |-> -1, stdout |-> <<>>]

GitRuns(outputs) == {[rc |-> 0, stdout |-> o] : o \in outputs} \cup {Failed}

\* no request is being served / nothing has been returned
NoCall == [op |-> "none"]
NoReturn == [tag |-> "none"]

JsonObject(o) == [tag |-> "obj", obj |-> o]
JsonArray(a) == [tag |-> "arr", arr |-> a]
Raised(e) == [tag |-> "raise", exc |-> e]

(***************************************************************************)
(* analyze_file_changes of the "actions" server.                           *)
(***************************************************************************)
TruncationNotice(M, total) ==
    <<NL, NL, "... Output truncated. Showing ", ToString(M), " of ",
      ToString(total), " lines ...",
      NL, "... Use max_diff_lines parameter to see more ...">>

DiffNotIncluded == <<"Diff not included (set include_diff=true to see full diff)">>

LimitDiffActions(stdout, M) ==
    LET diff_lines == Split(stdout, NL)
    IN  IF Len(diff_lines) > M
        THEN [diff_content |-> Join(Take(diff_lines, M), NL)
                                 \o TruncationNotice(M, Len(diff_lines)),
              truncated |-> TRUE,
              total |-> Len(diff_lines)]
        ELSE [diff_content |-> stdout,
              truncated |-> FALSE,
              total |-> Len(diff_lines)]

ReportedDiffActions(include_diff, d) ==
    IF include_diff THEN d.diff_content ELSE DiffNotIncluded

AnalyzeActions(c) ==
    IF c.ns.rc # 0
    THEN JsonObject([error |-> <<"Git error: ", "fatal">>])
    ELSE LET d == IF c.include_diff
                  THEN LimitDiffActions(c.diff.stdout, c.max_diff_lines)
                  ELSE [diff_content |-> <<>>, truncated |-> FALSE, total |-> 0]
         IN  JsonObject([base_branch |-> c.base_branch,
                         files_changed |-> c.ns.stdout,
                         statistics |-> c.stat.stdout,
                         commits |-> c.log.stdout,
                         diff |-> ReportedDiffActions(c.include_diff, d),
                         truncated |-> d.truncated,
                         total_diff_lines |-> d.total])

(***************************************************************************)
(* analyze_file_changes of the "build" server.                             *)
(***************************************************************************)
WorkingDirectory(roots) == IF roots THEN "root" ELSE "cwd"

NonEmpty(lines) == SelectSeq(lines, LAMBDA l : l # <<>>)

ChangedFilesWithStatus(stdout) == NonEmpty(SplitLines(Strip(stdout)))

ChangedFilesBuild(stdout) ==
    LET files_changed == NonEmpty(SplitLines(Strip(stdout)))
    IN  [i \in 1..Len(files_changed) |-> AfterFirstTab(files_changed[i])]

LimitDiffBuild(stdout, M) ==
    LET diff_lines == SplitLines(stdout)
    IN  IF Len(diff_lines) > M
        THEN [diff_content |-> Join(Take(diff_lines, M), NL), truncated |-> TRUE]
        ELSE [diff_content |-> stdout, truncated |-> FALSE]

\* Line 89 of the source, response["diff_truncated"] = , has no right-hand side:
\* the value stored is not determined by the source and is an input of the model.
AnalyzeBuild(c) ==
    IF c.ns.rc # 0
    THEN JsonObject([error |-> "Failed to analyze git changes", details |-> "ns"])
    ELSE LET files == ChangedFilesBuild(c.ns.stdout)
             base == [files_changed |-> files,
                      num_files_changed |-> Len(files),
                      used_working_directory |-> WorkingDirectory(c.roots)]
         IN  IF ~c.include_diff THEN JsonObject(base)
             ELSE IF c.diff.rc # 0
             THEN JsonObject([error |-> "Failed to analyze git changes",
                              details |-> "diff"])
             ELSE LET d == LimitDiffBuild(c.diff.stdout, c.max_diff_lines)
                  IN  JsonObject(base @@ [diff |-> d.diff_content,
                                          diff_truncated |-> c.line89,
                                          diff_line_limit |-> c.max_diff_lines])

AnalyzeResult(c) ==
    IF c.variant = "actions" THEN AnalyzeActions(c) ELSE AnalyzeBuild(c)

\* The commands a call runs after git diff --name-status returned ns, each with
\* the results it may have; a command that is not run has the result NotRun.
StatRuns(v, ns) ==
    IF v = "build" \/ ns.rc # 0 THEN {NotRun} ELSE GitRuns({StatOutput})

DiffRuns(diffs, inc, ns) ==
    IF ~inc \/ ns.rc # 0 THEN {NotRun} ELSE GitRuns(diffs)

LogRuns(v, ns) ==
    IF v = "build" \/ ns.rc # 0 THEN {NotRun} ELSE GitRuns({LogOutput})

\* list_roots() answers or fails; only the "build" server asks
RootsAnswers(v) == IF v = "build" THEN BOOLEAN ELSE {FALSE}

\* the values line 89 may store; the line is reached when the diff succeeded
Line89Values(v, df) ==
    IF v = "build" /\ df.rc = 0 THEN BOOLEAN ELSE {FALSE}

AnalyzeFileChanges(diffs) ==
    /\ call = NoCall
    /\ \E v \in Variants, R \in Refs, inc \in BOOLEAN, M \in 0..MaxLines,
          ns \in GitRuns(NameStatusOutputs) :
        \E st \in StatRuns(v, ns), df \in DiffRuns(diffs, inc, ns),
           lg \in LogRuns(v, ns), roots \in RootsAnswers(v) :
            \E l89 \in Line89Values(v, df) :
                /\ call' = [op |-> "analyze_file_changes", variant |-> v,
                            base_branch |-> R, include_diff |-> inc,
                            max_diff_lines |-> M, ns |-> ns, stat |-> st,
                            diff |-> df, log |-> lg, roots |-> roots,
                            line89 |-> l89]
                /\ ret' = AnalyzeResult(call')
    /\ UNCHANGED <<templateStore, eventsFile, prevTemplates>>

(***************************************************************************)
(* The template directory.  A file is "ok", "missing" or "unreadable".     *)
(***************************************************************************)
\* DEFAULT_TEMPLATES of the "actions" server, in the order of the dict
DefaultTemplateFiles ==
    <<"bug.md", "feature.md", "docs.md", "refactor.md", "test.md",
      "performance.md", "security.md">>

DEFAULT_TEMPLATES ==
    [f \in {DefaultTemplateFiles[i] : i \in DOMAIN DefaultTemplateFiles} |->
        CASE f = "bug.md" -> "Bug Fix"
          [] f = "feature.md" -> "Feature"
          [] f = "docs.md" -> "Documentation"
          [] f = "refactor.md" -> "Refactor"
          [] f = "test.md" -> "Test"
          [] f = "performance.md" -> "Performance"
          [] f = "security.md" -> "Security"]

\* the *.md files the directory may hold, in the order the directory lists them;
\* custom.md is a file that DEFAULT_TEMPLATES does not name
DirectoryOrder ==
    <<"bug.md", "custom.md", "docs.md", "feature.md", "performance.md",
      "refactor.md", "security.md", "test.md">>

TemplateFiles == {DirectoryOrder[i] : i \in DOMAIN DirectoryOrder}

FileStates == {"ok", "missing", "unreadable"}

ShippedStore ==
    [f \in TemplateFiles |-> IF f = "custom.md" THEN "missing" ELSE "ok"]

Broken(store) == {f \in TemplateFiles : store[f] # ShippedStore[f]}

\* template_file.stem
Stem(f) ==
    CASE f = "bug.md" -> "bug"
      [] f = "custom.md" -> "custom"
      [] f = "docs.md" -> "docs"
      [] f = "feature.md" -> "feature"
      [] f = "performance.md" -> "performance"
      [] f = "refactor.md" -> "refactor"
      [] f = "security.md" -> "security"
      [] f = "test.md" -> "test"

\* what reading file f yields
Content(f) == <<"content of", f>>

\* reading a file (read_text, open(..., "r")) leaves the directory as it was
StoreAfterRead(store) == store

\* TEMPLATES_DIR.glob("*.md"): the files that exist, in directory order
Glob(store) == SelectSeq(DirectoryOrder, LAMBDA f : store[f] # "missing")

\* the first file of `files` that cannot be read, "" when all can
FirstUnreadable(store, files) ==
    LET bad == SelectSeq(files, LAMBDA f : store[f] # "ok")
    IN  IF bad = <<>> THEN "" ELSE bad[1]

(***************************************************************************)
(* get_pr_templates                                                        *)
(***************************************************************************)
GetPrTemplatesActions(store) ==
    IF FirstUnreadable(store, DefaultTemplateFiles) # ""
    THEN Raised(IF store[FirstUnreadable(store, DefaultTemplateFiles)] = "missing"
                THEN "FileNotFoundError" ELSE "PermissionError")
    ELSE JsonArray([i \in DOMAIN DefaultTemplateFiles |->
                      [filename |-> DefaultTemplateFiles[i],
                       type |-> DEFAULT_TEMPLATES[DefaultTemplateFiles[i]],
                       content |-> Content(DefaultTemplateFiles[i])]])

ListTemplatesBuild(store) ==
    LET files == Glob(store)
    IN  [i \in DOMAIN files |->
            [filename |-> files[i], name |-> Stem(files[i]),
             content |-> Content(files[i])]]

GetPrTemplatesBuild(store) ==
    IF FirstUnreadable(store, Glob(store)) # ""
    THEN JsonObject([error |-> "Failed to read templates",
                     details |-> "PermissionError"])
    ELSE JsonArray(ListTemplatesBuild(store))

GetPrTemplatesResult(v, store) ==
    IF v = "actions" THEN GetPrTemplatesActions(store)
    ELSE GetPrTemplatesBuild(store)

(***************************************************************************)
(* suggest_template                                                        *)
(***************************************************************************)
TYPE_MAPPING ==
    [bug |-> "bug.md", fix |-> "bug.md",
     feature |-> "feature.md", enhancement |-> "feature.md",
     docs |-> "docs.md", documentation |-> "docs.md",
     refactor |-> "refactor.md", cleanup |-> "refactor.md",
     test |-> "test.md", testing |-> "test.md",
     performance |-> "performance.md", optimization |-> "performance.md",
     security |-> "security.md"]

type_map ==
    [bug |-> "bug.md", feature |-> "feature.md", docs |-> "docs.md",
     documentation |-> "docs.md", refactor |-> "refactor.md",
     test |-> "test.md", performance |-> "performance.md",
     security |-> "security.md"]

\* the change_type arguments: every key of either table, two keys in another
\* case, and two classifications that no table holds
ChangeTypes == DOMAIN TYPE_MAPPING \cup {"Bug", "FIX", "chore", ""}

FewChangeTypes == {"bug", "FIX", "fix", "chore"}

Summaries == {"summary"}

\* str.lower() on the arguments above
Lower(s) ==
    CASE s = "Bug" -> "bug"
      [] s = "FIX" -> "fix"
      [] OTHER -> s

\* dict.get(key, default)
DictGet(d, key, default) == IF key \in DOMAIN d THEN d[key] ELSE default

TemplateFileActionsAsTyped(change_type) ==
    DictGet(TYPE_MAPPING, change_type, "feature.md")

TemplateFileActions(change_type) ==
    DictGet(TYPE_MAPPING, Lower(change_type), "feature.md")

\* next((t for t in templates if t["filename"] == template_file), templates[0])
SelectTemplate(templates, template_file) ==
    LET hit == SelectSeq(templates, LAMBDA t : t.filename = template_file)
    IN  IF hit # <<>> THEN hit[1] ELSE templates[1]

\* json.loads(json.dumps(x)) of a list of dicts of strings is that list
SuggestTemplateActions(store, changes_summary, change_type) ==
    LET templates_response == GetPrTemplatesActions(store)
    IN  IF templates_response.tag = "raise" THEN templates_response
        ELSE LET templates == templates_response.arr
                 selected_template ==
                     SelectTemplate(templates, TemplateFileActions(change_type))
             IN  JsonObject(
                   [recommended_template |-> selected_template,
                    reasoning |-> <<"Based on your analysis: '", changes_summary,
                                    "', this appears to be a ", change_type,
                                    " change.">>,
                    template_content |-> selected_template.content,
                    usage_hint |-> "Claude can help you fill out this template based on the specific changes in your PR."])

\* "" stands for the None that type_map.get returns on a miss
SuggestTemplateBuild(store, changes_summary, change_type) ==
    LET template_file == DictGet(type_map, Lower(change_type), "")
    IN  IF template_file # ""
        THEN CASE store[template_file] = "ok" ->
                    JsonObject([recommended_template |-> template_file,
                                template_content |-> Content(template_file)])
               [] store[template_file] = "missing" ->
                    JsonObject([error |-> <<"Template '", template_file,
                                            "' not found.">>])
               [] store[template_file] = "unreadable" ->
                    JsonObject([error |-> <<"Failed to suggest template">>,
                                details |-> "PermissionError"])
        ELSE IF FirstUnreadable(store, Glob(store)) # ""
        THEN JsonObject([error |-> <<"Failed to suggest template">>,
                         details |-> "PermissionError"])
        ELSE JsonObject([error |-> <<"Unknown change_type '", change_type,
                                     "'. Returning all templates.">>,
                         templates |-> ListTemplatesBuild(store)])

SuggestTemplateResult(v, store, changes_summary, change_type) ==
    IF v = "actions" THEN SuggestTemplateActions(store, changes_summary, change_type)
    ELSE SuggestTemplateBuild(store, changes_summary, change_type)

(***************************************************************************)
(* The webhook event file.  A JSON value of an event is None or a string;  *)
(* a string is a sequence of characters, and a timestamp character is      *)
(* written as its digit, so that the order of digits is the order of the   *)
(* characters.                                                             *)
(***************************************************************************)
None == [t |-> "none"]
Str(s) == [t |-> "str", s |-> s]
Num(n) == [t |-> "num", n |-> n]

\* Python truth of None or a string
Truthy(v) == v # None /\ v.s # <<>>

\* a < b for two strings: the comparison of Python's str
RECURSIVE LexLess(_, _)
LexLess(a, b) ==
    IF b = <<>> THEN FALSE
    ELSE IF a = <<>> THEN TRUE
    ELSE IF a[1] # b[1] THEN a[1] < b[1]
    ELSE LexLess(Tail(a), Tail(b))

\* what the webhook receiver may append: a workflow_run event with or without
\* a name and a timestamp, or an event of another type
EventShapes ==
    {[event |-> Str(<<"workflow_run">>), name |-> n, stamp |-> u] :
        n \in {Str(<<"CI">>), Str(<<"Deploy">>)},
        u \in {None, Str(<<1>>), Str(<<2>>)}}
    \cup {[event |-> Str(<<"workflow_run">>), name |-> None, stamp |-> Str(<<1>>)],
          [event |-> Str(<<"workflow_run">>), name |-> Str(<<"CI">>),
           stamp |-> Str(<<1, 0>>)],
          [event |-> Str(<<"workflow_run">>), name |-> Str(<<"CI">>),
           stamp |-> Str(<<>>)],
          [event |-> Str(<<"push">>), name |-> Str(<<"CI">>), stamp |-> Str(<<2>>)]}

FewEventShapes ==
    {[event |-> Str(<<"workflow_run">>), name |-> Str(<<"CI">>), stamp |-> Str(<<1>>)],
     [event |-> Str(<<"workflow_run">>), name |-> Str(<<"CI">>), stamp |-> None],
     [event |-> Str(<<"push">>), name |-> Str(<<"CI">>), stamp |-> Str(<<2>>)]}

\* The JSON object of an event: a key is present when its value is not None.
MakeEvent(shape, id) ==
    LET full == [event |-> shape.event,
                 workflow_name |-> shape.name,
                 run_id |-> Num(id),
                 status |-> IF shape.stamp = None THEN Str(<<"queued">>)
                            ELSE Str(<<"completed">>),
                 conclusion |-> IF shape.stamp = None THEN None
                                ELSE Str(<<"success">>),
                 updated_at |-> shape.stamp]
    IN  [k \in {k \in DOMAIN full : full[k] # None} |-> full[k]]

\* event.get(key) and event.get(key, default)
Get(e, key) == IF key \in DOMAIN e THEN e[key] ELSE None
GetOr(e, key, default) == IF key \in DOMAIN e THEN e[key] ELSE default

NoFile == [kind |-> "missing", events |-> <<>>]
ArrayFile(events) == [kind |-> "array", events |-> events]

\* contents that are not an array of events: text that is not JSON, a JSON
\* object with members, the empty JSON object
OtherFileKinds == {"malformed", "object", "emptyobject"}

\* open(EVENTS_FILE, "w") would leave an empty file, which is no JSON
FileAfterOpenForWriting(file) == [kind |-> "malformed", events |-> <<>>]

\* open(EVENTS_FILE, "r"): reading leaves the file as it was
FileAfterOpen(file) == file

FileAfterCall(file) ==
    IF file.kind = "missing" THEN file ELSE FileAfterOpen(file)

\* seq[start:]
SliceFrom(seq, start) ==
    LET n == Len(seq)
        from == IF start < 0 THEN (IF n + start < 0 THEN 0 ELSE n + start)
                ELSE Min(start, n)
    IN  SubSeq(seq, from + 1, n)

(***************************************************************************)
(* get_recent_actions_events                                               *)
(***************************************************************************)
RecentError(what) ==
    JsonObject([error |-> <<"Failed to read events: ", what>>])

GetRecentActionsEventsResult(file, limit) ==
    CASE file.kind = "missing" -> JsonArray(<<>>)
      [] file.kind = "malformed" -> RecentError("JSONDecodeError")
      [] file.kind \in {"object", "emptyobject"} -> RecentError("TypeError")
      [] file.kind = "array" -> JsonArray(SliceFrom(file.events, 0 - limit))

(***************************************************************************)
(* get_workflow_status                                                     *)
(***************************************************************************)
StatusError(what) ==
    JsonObject([error |-> <<"Failed to get workflow status: ", what>>])

IsWorkflowRun(e) == Get(e, "event") = Str(<<"workflow_run">>)

\* the two list comprehensions of lines 209 and 212
WorkflowEvents(events, workflow_name) ==
    LET runs == SelectSeq(events, IsWorkflowRun)
    IN  IF Truthy(workflow_name)
        THEN SelectSeq(runs, LAMBDA e : Get(e, "workflow_name") = workflow_name)
        ELSE runs

EventName(e) == GetOr(e, "workflow_name", Str(<<"unknown">>))

StatusEntry(e) ==
    [workflow_name |-> EventName(e),
     run_id |-> Get(e, "run_id"),
     status |-> Get(e, "status"),
     conclusion |-> Get(e, "conclusion"),
     updated_at |-> Get(e, "updated_at")]

\* position in latest_status of the entry of `name`, 0 when it has none
RECURSIVE KeyIndex(_, _, _)
KeyIndex(latest, name, i) ==
    IF i > Len(latest) THEN 0
    ELSE IF latest[i].workflow_name = name THEN i
    ELSE KeyIndex(latest, name, i + 1)

\* latest_status[key].get("updated_at", ""): the entry always has the key, so
\* the default is never taken and the value may be None
StoredUpdatedAt(entry) == entry.updated_at

NeverLess(stored, updated_at) == FALSE

\* stored < updated_at, both strings
StoredIsOlder(stored, updated_at) == LexLess(stored, updated_at)

\* The loop of lines 215-232 from event i on.  latest_status is a dict, which
\* keeps its keys in the order of their first insertion: a sequence of entries.
RECURSIVE LatestStatus(_, _, _)
LatestStatus(events, i, latest) ==
    IF i > Len(events) THEN [raised |-> FALSE, latest |-> latest]
    ELSE LET event == events[i]
             updated_at == Get(event, "updated_at")
             at == KeyIndex(latest, EventName(event), 1)
         IN  IF at = 0
             THEN LatestStatus(events, i + 1, Append(latest, StatusEntry(event)))
             ELSE IF ~Truthy(updated_at)
             THEN LatestStatus(events, i + 1, latest)
             ELSE IF StoredUpdatedAt(latest[at]) = None
             THEN [raised |-> TRUE, latest |-> latest]
             ELSE IF StoredIsOlder(StoredUpdatedAt(latest[at]).s, updated_at.s)
             THEN LatestStatus(events, i + 1,
                               [latest EXCEPT ![at] = StatusEntry(event)])
             ELSE LatestStatus(events, i + 1, latest)

GetWorkflowStatusResult(file, workflow_name) ==
    CASE file.kind = "missing" -> JsonArray(<<>>)
      [] file.kind = "malformed" -> StatusError("JSONDecodeError")
      [] file.kind = "object" -> StatusError("AttributeError")
      [] file.kind = "emptyobject" -> JsonArray(<<>>)
      [] file.kind = "array" ->
           LET r == LatestStatus(WorkflowEvents(file.events, workflow_name),
                                 1, <<>>)
           IN  IF r.raised THEN StatusError("TypeError")
               ELSE JsonArray(r.latest)

\* the workflow_name arguments: None, a name, the empty string
WorkflowNames ==
    {None, Str(<<"CI">>), Str(<<"Deploy">>), Str(<<"unknown">>), Str(<<>>)}

FewWorkflowNames == {None, Str(<<"CI">>)}

(***************************************************************************)
(* The tools as actions, and the environment around them.                  *)
(***************************************************************************)
Init ==
    /\ templateStore = ShippedStore
    /\ eventsFile = NoFile
    /\ call = NoCall
    /\ ret = NoReturn
    /\ prevTemplates = [v \in Variants |-> NoReturn]

GetPrTemplates ==
    /\ call = NoCall
    /\ \E v \in Variants :
        /\ call' = [op |-> "get_pr_templates", variant |-> v]
        /\ ret' = GetPrTemplatesResult(v, templateStore)
        /\ prevTemplates' = [prevTemplates EXCEPT
                               ![v] = [out |-> ret', again |-> @ # NoReturn]]
        /\ templateStore' = StoreAfterRead(templateStore)
        /\ UNCHANGED eventsFile

SuggestTemplate(changeTypes) ==
    /\ call = NoCall
    /\ \E v \in Variants, s \in Summaries, t \in changeTypes :
        /\ call' = [op |-> "suggest_template", variant |-> v,
                    changes_summary |-> s, change_type |-> t]
        /\ ret' = SuggestTemplateResult(v, templateStore, s, t)
        /\ templateStore' = StoreAfterRead(templateStore)
        /\ UNCHANGED <<eventsFile, prevTemplates>>

GetRecentActionsEvents ==
    /\ call = NoCall
    /\ \E limit \in -1..MaxLimit :
        /\ call' = [op |-> "get_recent_actions_events", variant |-> "actions",
                    limit |-> limit]
        /\ ret' = GetRecentActionsEventsResult(eventsFile, limit)
        /\ eventsFile' = FileAfterCall(eventsFile)
        /\ UNCHANGED <<templateStore, prevTemplates>>

GetWorkflowStatus(names) ==
    /\ call = NoCall
    /\ \E w \in names :
        /\ call' = [op |-> "get_workflow_status", variant |-> "actions",
                    workflow_name |-> w]
        /\ ret' = GetWorkflowStatusResult(eventsFile, w)
        /\ eventsFile' = FileAfterCall(eventsFile)
        /\ UNCHANGED <<templateStore, prevTemplates>>

\* Somebody changes a file of the template directory.
EnvSetTemplate(files, maxBroken) ==
    /\ call = NoCall
    /\ \E f \in files, st \in FileStates :
        /\ st # templateStore[f]
        /\ Cardinality(Broken([templateStore EXCEPT ![f] = st])) <= maxBroken
        /\ templateStore' = [templateStore EXCEPT ![f] = st]
        /\ prevTemplates' = [v \in Variants |-> NoReturn]
        /\ UNCHANGED <<eventsFile, call, ret>>

\* The webhook receiver appends an event, creating the file when there is none.
EnvAppendEvent(shapes, maxLog) ==
    /\ call = NoCall
    /\ \E shape \in shapes :
        /\ eventsFile.kind \in {"missing", "array"}
        /\ Len(eventsFile.events) < maxLog
        /\ eventsFile' = ArrayFile(Append(eventsFile.events,
                                          MakeEvent(shape, Len(eventsFile.events) + 1)))
        /\ UNCHANGED <<templateStore, prevTemplates, call, ret>>

\* The file is removed, emptied, or left holding something that is no array.
EnvReplaceEvents ==
    /\ call = NoCall
    /\ \E f \in {NoFile, ArrayFile(<<>>)}
             \cup {[kind |-> k, events |-> <<>>] : k \in OtherFileKinds} :
        /\ f # eventsFile
        /\ eventsFile' = f
        /\ UNCHANGED <<templateStore, prevTemplates, call, ret>>

\* The response goes to the caller: the server serves one request at a time
\* and keeps nothing of it.
Deliver ==
    /\ call # NoCall
    /\ call' = NoCall
    /\ ret' = NoReturn
    /\ UNCHANGED <<templateStore, eventsFile, prevTemplates>>

\* the two files somebody changes while all five tools run together
VolatileFiles == {"bug.md", "custom.md"}

Next ==
    \/ AnalyzeFileChanges(FewDiffOutputs)
    \/ GetPrTemplates
    \/ SuggestTemplate(FewChangeTypes)
    \/ GetRecentActionsEvents
    \/ GetWorkflowStatus(FewWorkflowNames)
    \/ EnvSetTemplate(VolatileFiles, MaxBrokenAll)
    \/ EnvAppendEvent(FewEventShapes, MaxLogAll)
    \/ EnvReplaceEvents
    \/ Deliver

Spec == Init /\ [][Next]_vars

\* analyze_file_changes alone, over every diff
NextGit ==
    \/ AnalyzeFileChanges(DiffOutputs)
    \/ Deliver

SpecGit == Init /\ [][NextGit]_vars

\* the template tools and the template directory
NextTemplates ==
    \/ GetPrTemplates
    \/ SuggestTemplate(ChangeTypes)
    \/ EnvSetTemplate(TemplateFiles, MaxBroken)
    \/ Deliver

SpecTemplates == Init /\ [][NextTemplates]_vars

\* the event tools and the event file
NextEvents ==
    \/ GetRecentActionsEvents
    \/ GetWorkflowStatus(WorkflowNames)
    \/ EnvAppendEvent(EventShapes, MaxLog)
    \/ EnvReplaceEvents
    \/ Deliver

SpecEvents == Init /\ [][NextEvents]_vars

(***************************************************************************)
(* Properties.                                                             *)
(***************************************************************************)
IsObject == ret.tag = "obj"
IsArray == ret.tag = "arr"
IsErrorObject == ret.tag = "obj" /\ "error" \in DOMAIN ret.obj
IsReport == ret.tag = "obj" /\ "error" \notin DOMAIN ret.obj

\* the number of lines of a text: its line breaks, and the unfinished last line
LineCount(text) ==
    Cardinality({i \in DOMAIN text : text[i] = NL})
    + (IF text # <<>> /\ text[Len(text)] # NL THEN 1 ELSE 0)

IsPrefix(p, text) == Len(p) <= Len(text) /\ SubSeq(text, 1, Len(p)) = p

\* the results of the commands a call ran
RunsOf(c) == {r \in {c.ns, c.stat, c.diff, c.log} : r # NotRun}

AnalyzeWithDiff(v) ==
    /\ call.op = "analyze_file_changes"
    /\ call.variant = v
    /\ call.include_diff
    /\ call.ns.rc = 0
    /\ call.diff.rc = 0

\* C1: truncation law of analyze_file_changes with include_diff=true, for the
\* "actions" server.  With L the number of lines of the raw diff and M =
\* max_diff_lines: if M < L the returned diff is the first M lines followed by
\* a notice and the flag is true; if M >= L the returned diff is the raw diff
\* and the flag is false.
C1_TruncationLaw ==
    AnalyzeWithDiff("actions") =>
        LET raw == call.diff.stdout
            M == call.max_diff_lines
            kept == Join(Take(SplitLines(raw), M), NL)
        IN  /\ IsReport
            /\ IF M < LineCount(raw)
               THEN /\ ret.obj.truncated
                    /\ IsPrefix(kept, ret.obj.diff)
                    /\ Len(ret.obj.diff) > Len(kept)
               ELSE /\ ~ret.obj.truncated
                    /\ ret.obj.diff = raw

\* C5: whenever a git command that analyze_file_changes ran exits non-zero,
\* the tool returns an error object and no report.
C5_NonZeroExitIsError ==
    (call.op = "analyze_file_changes" /\ \E r \in RunsOf(call) : r.rc # 0)
        => IsErrorObject

\* the lines of the output of git diff --name-status, one per changed file
NameStatusLines(text) == SplitLines(text)

AnalyzeWithoutDiff ==
    /\ call.op = "analyze_file_changes"
    /\ ~call.include_diff
    /\ \A r \in RunsOf(call) : r.rc = 0

IsPathOfLine(path, line) ==
    \E k \in 1..Len(line) :
        /\ line[k] = TAB
        /\ \A j \in 1..(k - 1) : line[j] # TAB
        /\ path = SubSeq(line, k + 1, Len(line))

TemplatesReadable ==
    /\ \A i \in DOMAIN DefaultTemplateFiles :
          templateStore[DefaultTemplateFiles[i]] = "ok"
    /\ \A f \in TemplateFiles : templateStore[f] # "unreadable"

\* the synonym table of a server
TableOf(v) == IF v = "actions" THEN TYPE_MAPPING ELSE type_map

\* the filename of recommended_template: the "actions" server returns the
\* template, the "build" server its filename
RecommendedFile ==
    IF call.variant = "actions" THEN ret.obj.recommended_template.filename
    ELSE ret.obj.recommended_template

\* a template of the list has this filename
Lists(templates, f) == \E i \in DOMAIN templates : templates[i].filename = f

C4_NoExceptionEscapes ==
    call # NoCall =>
        /\ ret.tag \in {"obj", "arr"}
        /\ (call.op = "analyze_file_changes" /\ call.ns.rc # 0) => IsErrorObject
        /\ (call.op \in {"get_recent_actions_events", "get_workflow_status"}
            /\ eventsFile.kind = "malformed") => IsErrorObject

(***************************************************************************)
(* The event tools.                                                        *)
(***************************************************************************)
\* the last n of a sequence
LastN(seq, n) == SubSeq(seq, Len(seq) - n + 1, Len(seq))

\* C6: get_recent_actions_events(limit=N) with N >= 0 returns the last
\* min(N, K) of the K events of the file, in their order, and [] when there
\* is no file.
C6_LastEvents ==
    (call.op = "get_recent_actions_events" /\ call.limit >= 0
     /\ eventsFile.kind \in {"array", "missing"}) =>
        /\ IsArray
        /\ ret.arr = LastN(eventsFile.events,
                           Min(call.limit, Len(eventsFile.events)))

StatusCallOnEvents ==
    /\ call.op = "get_workflow_status"
    /\ eventsFile.kind = "array"

\* the events of the file that get_workflow_status is asked about
AskedEvents ==
    LET w == call.workflow_name
    IN  SelectSeq(eventsFile.events,
                  LAMBDA e : /\ "event" \in DOMAIN e
                             /\ e.event = Str(<<"workflow_run">>)
                             /\ (w # None /\ w.s # <<>>) =>
                                  ("workflow_name" \in DOMAIN e
                                   /\ e.workflow_name = w))

\* the workflow name of an event; an event without one counts as "unknown"
NameOf(e) ==
    IF "workflow_name" \in DOMAIN e THEN e.workflow_name ELSE Str(<<"unknown">>)

\* the timestamp of an event as text, the empty text when it has none
StampOf(e) == IF "updated_at" \in DOMAIN e THEN e.updated_at.s ELSE <<>>

\* the fields of an event that a status entry holds
Projection(e) ==
    [workflow_name |-> NameOf(e),
     run_id |-> IF "run_id" \in DOMAIN e THEN e.run_id ELSE None,
     status |-> IF "status" \in DOMAIN e THEN e.status ELSE None,
     conclusion |-> IF "conclusion" \in DOMAIN e THEN e.conclusion ELSE None,
     updated_at |-> IF "updated_at" \in DOMAIN e THEN e.updated_at ELSE None]

Range(seq) == {seq[i] : i \in DOMAIN seq}

AllStamped(events) == \A i \in DOMAIN events : "updated_at" \in DOMAIN events[i]

\* the entries of a result are those of the latest events: one entry for each
\* name, the projection of an event of that name that no event of that name
\* exceeds
LatestWins(entries, events) ==
    /\ {entries[i].workflow_name : i \in DOMAIN entries}
          = {NameOf(e) : e \in Range(events)}
    /\ \A i, j \in DOMAIN entries :
          entries[i].workflow_name = entries[j].workflow_name => i = j
    /\ \A i \in DOMAIN entries :
          \E e \in Range(events) :
              /\ entries[i] = Projection(e)
              /\ \A o \in Range(events) :
                    NameOf(o) = NameOf(e) => ~LexLess(StampOf(e), StampOf(o))

\* the orders in which the events of a sequence can stand
Orders(seq) ==
    {[i \in DOMAIN seq |-> seq[p[i]]] :
        p \in {q \in [DOMAIN seq -> DOMAIN seq] :
                  \A a, b \in DOMAIN seq : q[a] = q[b] => a = b}}

DistinctStamps(events) ==
    \A i, j \in DOMAIN events :
        (NameOf(events[i]) = NameOf(events[j])
         /\ StampOf(events[i]) = StampOf(events[j])) => i = j

\* C2: latest wins.  When every workflow_run event asked about carries
\* updated_at, the entry of each workflow is an event of that workflow with
\* the greatest updated_at; and when the timestamps of a workflow are distinct,
\* every order of the log gives the same entries.
C2_LatestWins ==
    (StatusCallOnEvents /\ AllStamped(AskedEvents)) =>
        /\ IsArray
        /\ LatestWins(ret.arr, AskedEvents)
        /\ DistinctStamps(AskedEvents) =>
              \A log \in Orders(eventsFile.events) :
                  LET other == GetWorkflowStatusResult(ArrayFile(log),
                                                       call.workflow_name)
                  IN  other.tag = "arr" /\ Range(other.arr) = Range(ret.arr)

\* C2 witness: the log holds two runs of one workflow, the later-stamped one
\* first, and the status is that one.
C2_Witness ==
    /\ StatusCallOnEvents
    /\ AllStamped(AskedEvents)
    /\ Len(AskedEvents) = 2
    /\ NameOf(AskedEvents[1]) = NameOf(AskedEvents[2])
    /\ LexLess(StampOf(AskedEvents[2]), StampOf(AskedEvents[1]))
    /\ IsArray
    /\ ret.arr = <<Projection(AskedEvents[1])>>

\* C8: get_workflow_status returns one entry for each workflow name among the
\* workflow_run events asked about, each entry the projection of one of these
\* events, and [] when there is none.
C8_OneEntryPerWorkflow ==
    StatusCallOnEvents =>
        /\ IsArray
        /\ {ret.arr[i].workflow_name : i \in DOMAIN ret.arr}
              = {NameOf(e) : e \in Range(AskedEvents)}
        /\ \A i, j \in DOMAIN ret.arr :
              ret.arr[i].workflow_name = ret.arr[j].workflow_name => i = j
        /\ \A i \in DOMAIN ret.arr :
              \E e \in Range(AskedEvents) : ret.arr[i] = Projection(e)

\* The reduction as the tie-break rule states it: the first event of a name is
\* the candidate, and a later event replaces it when it carries an updated_at
\* greater than the candidate's, a candidate without one counting as "".
RECURSIVE TieBreak(_, _, _)
TieBreak(events, i, entries) ==
    IF i > Len(events) THEN entries
    ELSE LET e == events[i]
             at == KeyIndex(entries, NameOf(e), 1)
             stored == IF at = 0 \/ entries[at].updated_at = None THEN <<>>
                       ELSE entries[at].updated_at.s
         IN  IF at = 0
             THEN TieBreak(events, i + 1, Append(entries, Projection(e)))
             ELSE IF "updated_at" \in DOMAIN e /\ LexLess(stored, StampOf(e))
             THEN TieBreak(events, i + 1, [entries EXCEPT ![at] = Projection(e)])
             ELSE TieBreak(events, i + 1, entries)

\* C9: get_workflow_status returns the list that the tie-break rule gives,
\* and never an error object, also when events lack updated_at.
C9_TieBreak ==
    StatusCallOnEvents =>
        /\ IsArray
        /\ ret.arr = TieBreak(AskedEvents, 1, <<>>)

(***************************************************************************)
(* All five tools.                                                         *)
(***************************************************************************)
\* C10: a call of any tool leaves the event file and the template directory
\* as they were, and get_pr_templates called again with the template directory
\* unchanged since its last call returns what it returned then.
C10_ReadOnly ==
    [][(call = NoCall /\ call' # NoCall) =>
          /\ eventsFile' = eventsFile
          /\ templateStore' = templateStore
          /\ (call'.op = "get_pr_templates"
              /\ prevTemplates[call'.variant] # NoReturn) =>
                 ret' = prevTemplates[call'.variant].out]_vars

\* C10 witness: get_pr_templates has been called again with the template
\* directory unchanged, after the event tools read a file that holds an event.
C10_Witness ==
    /\ call.op = "get_pr_templates"
    /\ prevTemplates[call.variant] # NoReturn
    /\ prevTemplates[call.variant].again
    /\ eventsFile.kind = "array"
    /\ eventsFile.events # <<>>
    /\ templateStore # ShippedStore

====
